---- MODULE Spec2Model ----
(***************************************************************************)
(* A model of src/lhd.py: the LiDARHD class (catalog resolution on         *)
(* construction, tile intersection and PDAL pipeline download) and its     *)
(* helpers fetch_chunk and url2bloc.                                       *)
(*                                                                         *)
(* Conventions.                                                            *)
(*  - An optional Python value is a sequence of length at most one:        *)
(*    None is <<>> and a value x is <<x>>.                                 *)
(*  - A Python string that the code inspects (a URL, an output path) is a  *)
(*    sequence of one-character strings.                                   *)
(*  - A (Geo)DataFrame is a record [crs, rows]; a row is a function from   *)
(*    column names to values; a geometry is a finite set of integer        *)
(*    points, so that two geometries intersect iff they share a point.     *)
(*  - The catalog file LidarHD_tiles_database_<d>.gpkg is named by its     *)
(*    date d; the folder is the function files plus the listing order      *)
(*    dirOrder that Path.glob enumerates it in.                            *)
(***************************************************************************)
EXTENDS Integers, Sequences, FiniteSets, TLC

(***************************************************************************)
(* Bounds of the model.                                                    *)
(***************************************************************************)
MaxDay == 2          \* calendar days the model runs over
max_pages == 3       \* pages requested by one build (the code's default: 100)
ntiles == 2          \* page size (the code's default: 5000)
MaxWorkers == 2      \* largest thread pool size tried (the code's default: 12)
MaxUrlLen == 6       \* longest URL, in characters, given to url2bloc

Procs == {1, 2}      \* callers that may construct LiDARHD objects on the folder
Dates == 1..MaxDay

None == <<>>
Some(x) == <<x>>

-----------------------------------------------------------------------------
(***************************************************************************)
(* Strings as character sequences.                                         *)
(***************************************************************************)
EndsWith(s, suffix) ==
    /\ Len(s) >= Len(suffix)
    /\ SubSeq(s, Len(s) - Len(suffix) + 1, Len(s)) = suffix

\* str.split(sep) for a one-character separator: the list of the pieces.
RECURSIVE Split(_, _)
Split(s, sep) ==
    IF \A i \in 1..Len(s) : s[i] # sep
    THEN <<s>>
    ELSE LET k == CHOOSE i \in 1..Len(s) :
                      /\ s[i] = sep
                      /\ \A j \in 1..(i - 1) : s[j] # sep
         IN  <<SubSeq(s, 1, k - 1)>> \o Split(SubSeq(s, k + 1, Len(s)), sep)

\* A stem in the manner of Path.stem: only the last extension is removed.
Url2BlocStem(x) ==
    IF x # None
    THEN LET parts == Split(x[1], "/")
             name == parts[Len(parts)]
             dots == {i \in 1..Len(name) : name[i] = "."}
         IN  IF dots = {} THEN Some(name)
             ELSE Some(SubSeq(name, 1, (CHOOSE i \in dots : \A j \in dots : j <= i) - 1))
    ELSE None

\* The lambda of url2bloc: x.split("/")[-1].split(".")[0] for a str, else None.
Url2BlocOne(x) ==
    IF x # None
    THEN LET parts == Split(x[1], "/")
         IN  Some(Split(parts[Len(parts)], ".")[1])
    ELSE None

-----------------------------------------------------------------------------
(***************************************************************************)
(* Geometry and reference frames.                                          *)
(***************************************************************************)
WorkingCrs == 2154
CRSs == {2154, 4326}

\* Coordinate transformation between the two frames of the model: a shift.
Transform(from, to, x) ==
    IF from = to THEN x
    ELSE IF to = WorkingCrs THEN x + 10 ELSE x - 10

\* GeoDataFrame.to_crs: every geometry transformed, a new frame returned.
ToCrs(gdf, crs) ==
    [crs  |-> crs,
     rows |-> [i \in 1..Len(gdf.rows) |->
                 [gdf.rows[i] EXCEPT
                    !.geometry = {Transform(gdf.crs, crs, x) : x \in @}]]]

\* GeoDataFrame.union_all: the union of all geometries.
UnionAll(gdf) == UNION {gdf.rows[i].geometry : i \in 1..Len(gdf.rows)}

\* shapely intersects: the two geometries share a point.
Intersects(g, h) == g \cap h # {}

-----------------------------------------------------------------------------
(***************************************************************************)
(* The remote feature service: three tiles in the working frame; the       *)
(* third carries no URL string.                                            *)
(***************************************************************************)
Url1 == <<"h", "/", "x", "/", "a", ".", "c", ".", "z">>
Url2 == <<"h", "/", "x", "/", "b", ".", "c", ".", "z">>

Remote ==
    << [gml_id |-> "g1", url |-> Some(Url1), geometry |-> {0, 1, 2}],
       [gml_id |-> "g2", url |-> Some(Url2), geometry |-> {2, 3, 4}],
       [gml_id |-> "g3", url |-> None,       geometry |-> {4, 5, 6}] >>

\* start_indexes of _download_database.
start_indexes == {(n - 1) * ntiles : n \in 1..max_pages}

Min(a, b) == IF a < b THEN a ELSE b

\* gpd.read_file of one page: the features STARTINDEX .. STARTINDEX+COUNT-1.
ReadPage(count, start_index) ==
    [crs  |-> WorkingCrs,
     rows |-> SubSeq(Remote, start_index + 1,
                     Min(start_index + count, Len(Remote)))]

\* A fetch_chunk that returns an empty page as it is.
fetch_chunk_keeps_empty(count, start_index, ok) ==
    IF ok THEN Some(ReadPage(count, start_index)) ELSE None

\* fetch_chunk: the page, or None when it is empty or the request failed.
fetch_chunk(count, start_index, ok) ==
    IF ok
    THEN LET gdf == ReadPage(count, start_index)
         IN  IF gdf.rows # <<>> THEN Some(gdf) ELSE None
    ELSE None

-----------------------------------------------------------------------------
(***************************************************************************)
(* Inputs of the public operations.                                        *)
(***************************************************************************)
Laz == <<".", "l", "a", "z">>

DownloadPaths ==
    { <<"o">> \o Laz,                 \* "o.laz"
      <<"o", ".", "l", "a", "s">>,    \* "o.las"
      <<"l", "a", "z">> }             \* "laz"

AreasOfInterest ==
    { [crs |-> 2154, rows |-> <<[geometry |-> {1}]>>],
      [crs |-> 2154, rows |-> <<[geometry |-> {1}], [geometry |-> {5}]>>],
      [crs |-> 2154, rows |-> <<[geometry |-> {9}]>>],
      [crs |-> 4326, rows |-> <<[geometry |-> {-8, -6}]>>],
      [crs |-> 4326, rows |-> <<[geometry |-> {1}]>>] }

NoArgs == [gdf |-> [crs |-> WorkingCrs, rows |-> <<>>], download_path |-> <<>>]

-----------------------------------------------------------------------------
VARIABLES
    today,          \* datetime.today(), as a day number
    files,          \* the catalog folder: date -> None or Some(GeoDataFrame)
    dirOrder,       \* the order Path.glob lists the catalog files in
    outFiles,       \* the output files written by PDAL
    callers,        \* the callers that are running
    pc,             \* per caller: where it is in __init__ or download
    overwrite,      \* per caller: the overwrite argument of the current __init__
    cpu_workers,    \* per caller: max_workers of the current thread pool
    is_database_present, \* per caller: the local of _download_database
    futures,        \* per caller: start index -> [state, result] of its future
    data_chunks,    \* per caller: the local list of _download_database
    db,             \* per caller: the local db of _download_database (None: unbound)
    written,        \* per caller: database_filename_path once written
    path,           \* per caller: the value _download_database returned
    database,       \* per caller: self.database of the object it holds
    database_path,  \* per caller: self.database_path of the object it holds
    args,           \* per caller: the arguments of the current/last download
    ret,            \* per caller: the outcome of the last finished call
    last_resolve    \* per caller: how its last two successful __init__ calls
                    \* resolved ("reuse" or "build"), the latest last

folderVars == <<files, dirOrder>>
buildVars  == <<overwrite, cpu_workers, is_database_present, futures,
                data_chunks, db, written, path>>
objectVars == <<database, database_path>>
vars == <<today, files, dirOrder, outFiles, callers, pc, overwrite,
          cpu_workers, is_database_present, futures, data_chunks, db,
          written, path, database, database_path, args, ret, last_resolve>>

NoFuture == [state |-> "new", result |-> None]

NoRet == [op |-> "none", errType |-> "none", errMsg |-> "",
          tiles |-> <<>>, pipeline |-> <<>>, executed |-> FALSE,
          points |-> FALSE]

Raise(op, type, msg) == [NoRet EXCEPT !.op = op, !.errType = type, !.errMsg = msg]

InitFor(active) ==
    /\ today = 1
    /\ files = [d \in Dates |-> None]
    /\ dirOrder = <<>>
    /\ outFiles = {}
    /\ callers = active
    /\ pc = [p \in Procs |-> "idle"]
    /\ overwrite = [p \in Procs |-> FALSE]
    /\ cpu_workers = [p \in Procs |-> 1]
    /\ is_database_present = [p \in Procs |-> FALSE]
    /\ futures = [p \in Procs |-> [idx \in start_indexes |-> NoFuture]]
    /\ data_chunks = [p \in Procs |-> <<>>]
    /\ db = [p \in Procs |-> None]
    /\ written = [p \in Procs |-> None]
    /\ path = [p \in Procs |-> None]
    /\ database = [p \in Procs |-> None]
    /\ database_path = [p \in Procs |-> None]
    /\ args = [p \in Procs |-> NoArgs]
    /\ ret = [p \in Procs |-> NoRet]
    /\ last_resolve = [p \in Procs |-> <<"none", "none">>]

Init == InitFor({1})

-----------------------------------------------------------------------------
(***************************************************************************)
(* The catalog folder.                                                     *)
(***************************************************************************)
\* _get_database_path: the first file the glob lists, or None.
get_database_path ==
    IF dirOrder # <<>> THEN Some(dirOrder[1]) ELSE None

\* Path.exists for a catalog file.
Exists(d) == files[d] # None

\* A _check_database that never finds the catalog.
check_database_never == FALSE

\* _check_database.
check_database ==
    LET found == get_database_path
    IN  found # None /\ Exists(found[1])

\* A load that checks the file and leaves the reading for later.
read_database_lazy(given) ==
    LET chosen == IF given = None THEN get_database_path ELSE given
    IN  IF chosen = None
        THEN [errType |-> "TypeError", errMsg |-> "path", gdf |-> None]
        ELSE IF ~Exists(chosen[1])
        THEN [errType |-> "FileNotFoundError", errMsg |-> "Database file not found",
              gdf |-> None]
        ELSE [errType |-> "none", errMsg |-> "", gdf |-> None]

\* _read_database: [errType, errMsg, gdf].
read_database(given) ==
    LET chosen == IF given = None THEN get_database_path ELSE given
    IN  IF chosen = None
        THEN [errType |-> "TypeError", errMsg |-> "path", gdf |-> None]
        ELSE IF ~Exists(chosen[1])
        THEN [errType |-> "FileNotFoundError", errMsg |-> "Database file not found",
              gdf |-> None]
        ELSE [errType |-> "none", errMsg |-> "",
              gdf |-> Some(ToCrs(files[chosen[1]][1], WorkingCrs))]

\* A file name that carries no date: the first day's name, whatever the day.
database_filename_undated(day) == 1

\* database_filename_path: the file dated with the current day.
database_filename(day) == day

\* A write that keeps a file that is already there.
to_file_exclusive(folder, name, frame) ==
    IF folder[name] # None THEN folder ELSE [folder EXCEPT ![name] = Some(frame)]

\* A write that clears the other catalog files of the folder.
to_file_alone(folder, name, frame) ==
    [d \in DOMAIN folder |-> IF d = name THEN Some(frame) ELSE None]

\* GeoDataFrame.to_file(name, driver='GPKG'): the file holds the frame.
to_file(folder, name, frame) == [folder EXCEPT ![name] = Some(frame)]

InsertAt(seq, pos, x) ==
    SubSeq(seq, 1, pos - 1) \o <<x>> \o SubSeq(seq, pos, Len(seq))

InOrder(d) == \E i \in 1..Len(dirOrder) : dirOrder[i] = d

-----------------------------------------------------------------------------
(***************************************************************************)
(* Building the catalog from the collected pages.                          *)
(***************************************************************************)
\* pd.concat(data_chunks, ignore_index=True): the rows of the chunks in order.
RECURSIVE ConcatRows(_)
ConcatRows(chunks) ==
    IF chunks = <<>> THEN <<>>
    ELSE Head(chunks).rows \o ConcatRows(Tail(chunks))

\* A concatenation that keeps the last chunk only.
ConcatLastOnly(chunks) ==
    [crs |-> Head(chunks).crs, rows |-> chunks[Len(chunks)].rows]

Concat(chunks) == [crs |-> Head(chunks).crs, rows |-> ConcatRows(chunks)]

\* url2bloc over the url column, assigned to the new column bloc.
url2bloc(frame) ==
    [frame EXCEPT !.rows =
        [i \in 1..Len(frame.rows) |->
            [c \in DOMAIN frame.rows[i] \cup {"bloc"} |->
                IF c = "bloc" THEN Url2BlocOne(frame.rows[i].url)
                ELSE frame.rows[i][c]]]]

\* DataFrame.drop(columns=[col], errors='ignore').
Drop(frame, col) ==
    [frame EXCEPT !.rows =
        [i \in 1..Len(frame.rows) |->
            [c \in DOMAIN frame.rows[i] \ {col} |-> frame.rows[i][c]]]]

\* A build that binds db to an empty frame when no page returned data.
BuildDbAlwaysBound(chunks) ==
    IF chunks # <<>>
    THEN Some(Drop(url2bloc(Concat(chunks)), "gml_id"))
    ELSE Some([crs |-> WorkingCrs, rows |-> <<>>])

\* Lines 110-114: db is bound only when some page returned data.
BuildDb(chunks) ==
    IF chunks # <<>>
    THEN Some(Drop(url2bloc(Concat(chunks)), "gml_id"))
    ELSE None

-----------------------------------------------------------------------------
(***************************************************************************)
(* __init__ and _download_database, step by step.                          *)
(***************************************************************************)
Running(p) == {idx \in start_indexes : futures[p][idx].state = "running"}
Queued(p)  == {idx \in start_indexes : futures[p][idx].state = "queued"}
\* A wait that ends as soon as the queue is empty.
AllStarted(p) == {idx \in start_indexes : futures[p][idx].state = "queued"} = {}

AllDone(p) == \A idx \in start_indexes : futures[p][idx].state = "done"

\* __init__ up to the decision of _download_database (lines 23-25, 89-96).
Construct(p, ow) ==
    /\ p \in callers
    /\ pc[p] = "idle"
    /\ overwrite' = [overwrite EXCEPT ![p] = ow]
    /\ is_database_present' = [is_database_present EXCEPT ![p] = check_database]
    /\ pc' = [pc EXCEPT ![p] = IF check_database /\ ~ow THEN "reuse" ELSE "submit"]
    /\ futures' = [futures EXCEPT ![p] = [idx \in start_indexes |-> NoFuture]]
    /\ data_chunks' = [data_chunks EXCEPT ![p] = <<>>]
    /\ db' = [db EXCEPT ![p] = None]
    /\ written' = [written EXCEPT ![p] = None]
    /\ path' = [path EXCEPT ![p] = None]
    /\ cpu_workers' = [cpu_workers EXCEPT ![p] = 1]
    /\ args' = [args EXCEPT ![p] = NoArgs]
    /\ ret' = [ret EXCEPT ![p] = NoRet]
    /\ UNCHANGED <<today, files, dirOrder, outFiles, callers, database,
                   database_path, last_resolve>>

\* Line 92: the existing catalog is used.
ReturnExisting(p) ==
    /\ pc[p] = "reuse"
    /\ path' = [path EXCEPT ![p] = get_database_path]
    /\ pc' = [pc EXCEPT ![p] = "read"]
    /\ UNCHANGED <<today, files, dirOrder, outFiles, callers, overwrite,
                   cpu_workers, is_database_present, futures, data_chunks, db,
                   written, database, database_path, args, ret, last_resolve>>

\* Lines 99-104: the pool is created and every page fetch is submitted.
Submit(p, w) ==
    /\ pc[p] = "submit"
    /\ cpu_workers' = [cpu_workers EXCEPT ![p] = w]
    /\ futures' = [futures EXCEPT ![p] =
                     [idx \in start_indexes |-> [NoFuture EXCEPT !.state = "queued"]]]
    /\ pc' = [pc EXCEPT ![p] = "fetch"]
    /\ UNCHANGED <<today, files, dirOrder, outFiles, callers, overwrite,
                   is_database_present, data_chunks, db, written, path,
                   database, database_path, args, ret, last_resolve>>

\* A free worker takes the next queued fetch (the pool's queue is FIFO).
StartFetch(p) ==
    /\ pc[p] = "fetch"
    /\ Queued(p) # {}
    /\ Cardinality(Running(p)) < cpu_workers[p]
    /\ LET idx == CHOOSE i \in Queued(p) : \A j \in Queued(p) : i <= j
       IN  futures' = [futures EXCEPT ![p][idx].state = "running"]
    /\ UNCHANGED <<today, files, dirOrder, outFiles, callers, pc, overwrite,
                   cpu_workers, is_database_present, data_chunks, db, written,
                   path, database, database_path, args, ret, last_resolve>>

\* Lines 105-108: a fetch completes and its result, unless None, is collected.
FinishFetch(p, idx, ok) ==
    /\ pc[p] = "fetch"
    /\ futures[p][idx].state = "running"
    /\ LET result == fetch_chunk(ntiles, idx, ok)
       IN  /\ futures' = [futures EXCEPT ![p][idx] =
                            [state |-> "done", result |-> result]]
           /\ data_chunks' = [data_chunks EXCEPT ![p] =
                                IF result # None THEN Append(@, result[1]) ELSE @]
    /\ UNCHANGED <<today, files, dirOrder, outFiles, callers, pc, overwrite,
                   cpu_workers, is_database_present, db, written, path,
                   database, database_path, args, ret, last_resolve>>

\* Lines 110-114, once the pool has shut down.
BuildCatalog(p) ==
    /\ pc[p] = "fetch"
    /\ AllDone(p)
    /\ db' = [db EXCEPT ![p] = BuildDb(data_chunks[p])]
    /\ pc' = [pc EXCEPT ![p] = "save"]
    /\ UNCHANGED <<today, files, dirOrder, outFiles, callers, overwrite,
                   cpu_workers, is_database_present, futures, data_chunks,
                   written, path, database, database_path, args, ret,
                   last_resolve>>

\* Lines 116-119: db.to_file on the file dated today; an unbound db raises.
ToFile(p) ==
    /\ pc[p] = "save"
    /\ IF db[p] = None
       THEN /\ ret' = [ret EXCEPT ![p] = Raise("init", "UnboundLocalError", "db")]
            /\ pc' = [pc EXCEPT ![p] = "idle"]
            /\ UNCHANGED <<files, dirOrder, written>>
       ELSE LET name == database_filename(today)
            IN  /\ files' = to_file(files, name, db[p][1])
                /\ IF InOrder(name)
                   THEN dirOrder' = dirOrder
                   ELSE \E pos \in 1..(Len(dirOrder) + 1) :
                            dirOrder' = InsertAt(dirOrder, pos, name)
                /\ written' = [written EXCEPT ![p] = Some(name)]
                /\ pc' = [pc EXCEPT ![p] = "getpath"]
                /\ UNCHANGED ret
    /\ UNCHANGED <<today, outFiles, callers, overwrite, cpu_workers,
                   is_database_present, futures, data_chunks, db, path,
                   database, database_path, args, last_resolve>>

\* Line 120.
ReturnPath(p) ==
    /\ pc[p] = "getpath"
    /\ path' = [path EXCEPT ![p] = get_database_path]
    /\ pc' = [pc EXCEPT ![p] = "read"]
    /\ UNCHANGED <<today, files, dirOrder, outFiles, callers, overwrite,
                   cpu_workers, is_database_present, futures, data_chunks, db,
                   written, database, database_path, args, ret, last_resolve>>

\* Lines 26-27: the object's attributes are set; the caller holds the object.
ReadDatabase(p) ==
    /\ pc[p] = "read"
    /\ LET r == read_database(path[p])
       IN  IF r.errType # "none"
           THEN /\ ret' = [ret EXCEPT ![p] = Raise("init", r.errType, r.errMsg)]
                /\ UNCHANGED <<database, database_path, last_resolve>>
           ELSE /\ ret' = [ret EXCEPT ![p] = [NoRet EXCEPT !.op = "init"]]
                /\ database_path' = [database_path EXCEPT ![p] = path[p]]
                /\ database' = [database EXCEPT ![p] = r.gdf]
                /\ last_resolve' = [last_resolve EXCEPT ![p] =
                       <<@[2], IF written[p] = None THEN "reuse" ELSE "build">>]
    /\ pc' = [pc EXCEPT ![p] = "idle"]
    /\ UNCHANGED <<today, files, dirOrder, outFiles, callers, overwrite,
                   cpu_workers, is_database_present, futures, data_chunks, db,
                   written, path, args>>

-----------------------------------------------------------------------------
(***************************************************************************)
(* _get_clouds_intersecting and download.                                  *)
(***************************************************************************)
\* An intersection that takes the area of interest in its own frame.
IntersectingTilesUnprojected(catalog, gdf) ==
    LET union_all == UnionAll(gdf)
        Hit(row) == Intersects(row.geometry, union_all)
    IN  SelectSeq(catalog.rows, Hit)

\* Lines 136-144: the rows of the catalog that intersect the union of the
\* reprojected area of interest, in catalog order.
IntersectingTiles(catalog, gdf) ==
    LET union_all == UnionAll(ToCrs(gdf, WorkingCrs))
        Hit(row) == Intersects(row.geometry, union_all)
    IN  SelectSeq(catalog.rows, Hit)

\* _get_clouds_intersecting: [errType, errMsg, tiles].
get_clouds_intersecting(loaded, gdf) ==
    IF loaded = None
    THEN [errType |-> "ValueError", errMsg |-> "Database is not loaded",
          tiles |-> <<>>]
    ELSE [errType |-> "none", errMsg |-> "",
          tiles |-> IntersectingTiles(loaded[1], gdf)]

\* An extension test that forgets the dot.
HasLazSuffix(download_path) == EndsWith(download_path, <<"l", "a", "z">>)

\* Line 160: download_path.endswith('.laz').
HasLazExtension(download_path) == EndsWith(download_path, Laz)

\* An emptiness test that never fires.
IsEmptyNever(tiles) == FALSE

\* Line 165: intersecting_tiles.empty.
IsEmpty(tiles) == Len(tiles) = 0

ReadStage(url, gdf) ==
    [type |-> "readers.copc", filename |-> url, polygon |-> UnionAll(gdf)]

MergeStage == [type |-> "filters.merge"]

WriteStage(download_path) ==
    [type |-> "writers.las", filename |-> download_path, compression |-> "true"]

\* A pipeline that merges as soon as there is one reader.
BuildPipelineAlwaysMerge(tiles, gdf, download_path) ==
    LET download_urls == [i \in 1..Len(tiles) |-> tiles[i].url]
        readers == [i \in 1..Len(download_urls) |-> ReadStage(download_urls[i], gdf)]
        merge == IF Len(download_urls) > 0 THEN <<MergeStage>> ELSE <<>>
    IN  readers \o merge \o <<WriteStage(download_path)>>

\* Lines 169-197: the pipeline description.
BuildPipeline(tiles, gdf, download_path) ==
    LET download_urls == [i \in 1..Len(tiles) |-> tiles[i].url]
        readers == [i \in 1..Len(download_urls) |-> ReadStage(download_urls[i], gdf)]
        merge == IF Len(download_urls) > 1 THEN <<MergeStage>> ELSE <<>>
    IN  readers \o merge \o <<WriteStage(download_path)>>

\* The caller invokes download on the object it holds.
DownloadCall(p, gdf, download_path) ==
    /\ p \in callers
    /\ pc[p] = "idle"
    /\ database_path[p] # None
    /\ args' = [args EXCEPT ![p] = [gdf |-> gdf, download_path |-> download_path]]
    /\ ret' = [ret EXCEPT ![p] = NoRet]
    /\ pc' = [pc EXCEPT ![p] = "download"]
    /\ UNCHANGED <<today, files, dirOrder, outFiles, callers, overwrite,
                   cpu_workers, is_database_present, futures, data_chunks, db,
                   written, path, database, database_path, last_resolve>>

\* download (lines 160-206) as a function of the object, the arguments and
\* of whether PDAL runs the pipeline through: what it returns or raises.
download_outcome(loaded, gdf, download_path, executes) ==
    LET found == get_clouds_intersecting(loaded, gdf)
        pipeline == BuildPipeline(found.tiles, gdf, download_path)
    IN  IF ~HasLazExtension(download_path)
        THEN Raise("download", "ValueError", "Download path must end with .laz")
        ELSE IF found.errType # "none"
        THEN Raise("download", found.errType, found.errMsg)
        ELSE IF IsEmpty(found.tiles)
        THEN Raise("download", "ValueError", "No intersecting tiles found")
        ELSE IF ~executes
        THEN [Raise("download", "RuntimeError", "pdal") EXCEPT
                 !.tiles = found.tiles, !.pipeline = pipeline, !.executed = TRUE]
        ELSE [NoRet EXCEPT !.op = "download",
                 !.tiles = found.tiles, !.pipeline = pipeline,
                 !.executed = TRUE, !.points = TRUE]

\* download; leaves says whether a failed PDAL run left the output file behind.
Download(p, executes, leaves) ==
    /\ pc[p] = "download"
    /\ LET out == download_outcome(database[p], args[p].gdf,
                                   args[p].download_path, executes)
       IN  /\ ret' = [ret EXCEPT ![p] = out]
           /\ outFiles' = IF out.executed /\ (out.errType = "none" \/ leaves)
                          THEN outFiles \cup {args[p].download_path}
                          ELSE outFiles
    /\ pc' = [pc EXCEPT ![p] = "idle"]
    /\ UNCHANGED <<today, files, dirOrder, callers, overwrite, cpu_workers,
                   is_database_present, futures, data_chunks, db, written,
                   path, database, database_path, args, last_resolve>>

\* The calendar day changes.
Tick ==
    /\ today < MaxDay
    /\ today' = today + 1
    /\ UNCHANGED <<files, dirOrder, outFiles, callers, pc, overwrite,
                   cpu_workers, is_database_present, futures, data_chunks, db,
                   written, path, database, database_path, args, ret,
                   last_resolve>>

Next ==
    \/ Tick
    \/ \E p \in Procs :
        \/ \E ow \in BOOLEAN : Construct(p, ow)
        \/ ReturnExisting(p)
        \/ \E w \in 1..MaxWorkers : Submit(p, w)
        \/ StartFetch(p)
        \/ \E idx \in start_indexes, ok \in BOOLEAN : FinishFetch(p, idx, ok)
        \/ BuildCatalog(p)
        \/ ToFile(p)
        \/ ReturnPath(p)
        \/ ReadDatabase(p)
        \/ \E gdf \in AreasOfInterest, download_path \in DownloadPaths :
               DownloadCall(p, gdf, download_path)
        \/ \E executes \in BOOLEAN, leaves \in BOOLEAN : Download(p, executes, leaves)

Spec == Init /\ [][Next]_vars

-----------------------------------------------------------------------------
(***************************************************************************)
(* Properties.                                                             *)
(***************************************************************************)
InitDone(p) == pc[p] = "idle" /\ ret[p].op = "init" /\ ret[p].errType = "none"

AnyFile == \E d \in Dates : files[d] # None

NumFiles == Cardinality({d \in Dates : files[d] # None})

\* C1: when __init__ runs with overwrite=True and a catalog file already
\* exists, the catalog it loads, and the path it records, are those of the
\* catalog it has just built and written, never a pre-existing file.
C1_OverwriteLoadsNewCatalog ==
    \A p \in callers :
        (InitDone(p) /\ overwrite[p] /\ is_database_present[p]) =>
            /\ written[p] # None
            /\ database_path[p] = written[p]
            /\ database[p] = db[p]

\* A call with overwrite=False that found a catalog file in the folder.
NoOverwriteOnPresent(p) ==
    /\ pc[p] \notin {"idle", "download"}
    /\ ~overwrite[p]
    /\ written[p] = None
    /\ AnyFile

\* C2: __init__ with overwrite=False on a folder that holds a catalog file
\* submits no page fetch and writes no file, it succeeds, and when the
\* previous call was such a call too it loads the same catalog again.
C2_ReuseIdempotent ==
    [][\A p \in callers :
        /\ NoOverwriteOnPresent(p)' =>
              /\ files' = files
              /\ dirOrder' = dirOrder
              /\ \A idx \in start_indexes : futures'[p][idx] = NoFuture
        /\ (NoOverwriteOnPresent(p) /\ pc'[p] = "idle") =>
              /\ ret'[p].errType = "none"
              /\ database'[p] # None
              /\ last_resolve[p][2] = "reuse" =>
                    /\ database'[p] = database[p]
                    /\ database_path'[p] = database_path[p]]_vars

C2_Witness ==
    /\ InitDone(1)
    /\ last_resolve[1] = <<"reuse", "reuse">>
    /\ Len(dirOrder) = 2
    /\ \A idx \in start_indexes : futures[1][idx] = NoFuture

\* The identity of a catalog record: the attributes the service gave it.
RowKey(row) == <<row.url, row.geometry>>

CountIn(rows, k) == Cardinality({i \in 1..Len(rows) : RowKey(rows[i]) = k})

SuccessfulPages(p) == {idx \in start_indexes : futures[p][idx].result # None}

PageRows(p, idx) == futures[p][idx].result[1].rows

CountInPages(p, k) ==
    Cardinality({pr \in UNION {{idx} \X (1..Len(PageRows(p, idx))) :
                                  idx \in SuccessfulPages(p)} :
                    RowKey(PageRows(p, pr[1])[pr[2]]) = k})

\* C3: whatever the pool size, the failed pages and the completion order,
\* when at least one page returned data the built catalog holds every
\* record of every successful page exactly once and nothing else.
C3_CatalogComplete ==
    \A p \in callers :
        (pc[p] \in {"save", "getpath", "read"} /\ SuccessfulPages(p) # {}) =>
            /\ db[p] # None
            /\ \A k \in {RowKey(Remote[i]) : i \in 1..Len(Remote)}
                        \cup {RowKey(db[p][1].rows[i]) : i \in 1..Len(db[p][1].rows)} :
                    CountIn(db[p][1].rows, k) = CountInPages(p, k)

\* Two pages returned data and the later page completed first.
C3_Witness ==
    /\ pc[1] = "save"
    /\ Len(data_chunks[1]) = 2
    /\ data_chunks[1][2].rows[1].gml_id = "g1"
    /\ Len(db[1][1].rows) = Len(Remote)

\* C4: the build ends in an error iff no page returned data; then no
\* catalog file is written; otherwise the catalog is written.
C4_FatalIffNoPage ==
    [][\A p \in callers :
        (pc[p] = "save" /\ pc'[p] # "save") =>
            LET zero == \A idx \in start_indexes : futures[p][idx].result = None
            IN  /\ zero <=> (pc'[p] = "idle" /\ ret'[p].errType # "none")
                /\ zero => (files' = files /\ dirOrder' = dirOrder)
                /\ ~zero => (pc'[p] = "getpath" /\ files'[today] # None
                             /\ ret'[p].errType = "none")]_vars

C4_Witness ==
    /\ pc[1] = "idle"
    /\ ret[1].op = "init"
    /\ ret[1].errType = "UnboundLocalError"
    /\ \A idx \in start_indexes :
          futures[1][idx].state = "done" /\ futures[1][idx].result = None
    /\ ~AnyFile

\* The step in which an overwrite=True call writes its catalog.
OverwriteWrites(p) == pc[p] = "save" /\ pc'[p] = "getpath" /\ overwrite[p]

\* C5 as stated: every successful overwrite=True call leaves one more
\* catalog file in the folder than there was before it.
C5_OverwriteAddsFile ==
    [][\A p \in callers : OverwriteWrites(p) => NumFiles' = NumFiles + 1]_vars

\* C5 amended: an overwrite=True call writes the catalog it built to the
\* file dated with the current day; the folder gains one file when no file
\* of that date existed, and keeps its number of files otherwise.
C5_OverwriteWritesTodaysFile ==
    [][\A p \in callers :
        OverwriteWrites(p) =>
            /\ written'[p] = Some(today)
            /\ files'[today] = db[p]
            /\ NumFiles' = NumFiles + (IF files[today] = None THEN 1 ELSE 0)]_vars

\* An overwrite=True call has written on the day of the only existing file.
C5_Witness ==
    /\ pc[1] = "getpath"
    /\ overwrite[1]
    /\ is_database_present[1]
    /\ today = 2
    /\ written[1] = Some(2)
    /\ NumFiles = 1

\* C6 as stated: no step changes or removes an existing catalog file.
C6_NeverMutated ==
    [][\A d \in Dates : files[d] # None => files'[d] = files[d]]_vars

\* C6 amended: no catalog file is ever removed, and the only file whose
\* content can change is the one dated with the current day, when a call
\* with overwrite=True writes its catalog.
C6_OnlyTodaysFileRewritten ==
    [][\A d \in Dates :
        files[d] # None =>
            /\ files'[d] # None
            /\ files'[d] # files[d] =>
                  /\ d = today
                  /\ \E p \in callers : OverwriteWrites(p)
            /\ \E i \in 1..Len(dirOrder') : dirOrder'[i] = d]_vars

\* An overwrite=True call has written next to a file of an earlier day.
C6_Witness ==
    /\ pc[1] = "getpath"
    /\ overwrite[1]
    /\ today = 2
    /\ written[1] = Some(2)
    /\ files[1] # None
    /\ files[1] # files[2]

\* C7: for K >= 1 matched tiles the pipeline is K read stages, the i-th on
\* the i-th matched URL, then one merge stage iff K > 1, then one write
\* stage on download_path with compression, and nothing else.
C7_PipelineShape ==
    \A p \in callers :
        (ret[p].op = "download" /\ ret[p].executed) =>
            LET K == Len(ret[p].tiles)
                M == IF K > 1 THEN 1 ELSE 0
                stages == ret[p].pipeline
            IN  /\ K >= 1
                /\ Len(stages) = K + M + 1
                /\ \A i \in 1..K :
                      /\ stages[i].type = "readers.copc"
                      /\ stages[i].filename = ret[p].tiles[i].url
                /\ \A i \in (K + 1)..(K + M) : stages[i] = [type |-> "filters.merge"]
                /\ stages[K + M + 1] =
                      [type |-> "writers.las",
                       filename |-> args[p].download_path,
                       compression |-> "true"]

C7_Witness ==
    /\ ret[1].op = "download"
    /\ ret[1].executed
    /\ Len(ret[1].tiles) = 1
    /\ Len(ret[1].pipeline) = 2

\* The step in which download returns or raises.
DownloadEnds(p) == pc[p] = "download" /\ pc'[p] = "idle"

\* C8: download raises the ValueError of the extension check for every
\* download_path that does not end in ".laz", before the intersection
\* query: no tile is matched, no pipeline is built or run, no file written.
C8_BadExtensionRejected ==
    [][\A p \in callers :
        (DownloadEnds(p) /\ ~EndsWith(args[p].download_path, <<".", "l", "a", "z">>)) =>
            /\ ret'[p].errType = "ValueError"
            /\ ret'[p].errMsg = "Download path must end with .laz"
            /\ ret'[p].tiles = <<>>
            /\ ret'[p].pipeline = <<>>
            /\ ~ret'[p].executed
            /\ outFiles' = outFiles]_vars

\* The path "laz" was rejected for an area that covers tiles.
C8_Witness ==
    /\ pc[1] = "idle"
    /\ ret[1].op = "download"
    /\ ret[1].errMsg = "Download path must end with .laz"
    /\ args[1].download_path = <<"l", "a", "z">>
    /\ args[1].gdf.crs = 2154
    /\ Len(args[1].gdf.rows) = 2

\* The area of interest, moved to the working frame, as one set of points.
AreaInWorkingFrame(gdf) ==
    UNION {{Transform(gdf.crs, 2154, x) : x \in gdf.rows[i].geometry} :
              i \in 1..Len(gdf.rows)}

\* The positions of the catalog rows that the area of interest touches.
Hits(catalog, gdf) ==
    {i \in 1..Len(catalog.rows) :
        catalog.rows[i].geometry \cap AreaInWorkingFrame(gdf) # {}}

\* C9: download with a path ending in ".laz" and an area of interest that
\* touches no catalog tile raises the ValueError of the empty result, runs
\* no pipeline and writes no file.
C9_NoTileRaises ==
    [][\A p \in callers :
        (/\ DownloadEnds(p)
         /\ EndsWith(args[p].download_path, <<".", "l", "a", "z">>)
         /\ database[p] # None
         /\ Hits(database[p][1], args[p].gdf) = {}) =>
            /\ ret'[p].errType = "ValueError"
            /\ ret'[p].errMsg = "No intersecting tiles found"
            /\ ret'[p].pipeline = <<>>
            /\ ~ret'[p].executed
            /\ outFiles' = outFiles
            /\ files' = files]_vars

\* An area that is off the tiles only once it is reprojected was refused.
C9_Witness ==
    /\ pc[1] = "idle"
    /\ ret[1].op = "download"
    /\ ret[1].errMsg = "No intersecting tiles found"
    /\ args[1].gdf.crs = 4326
    /\ Len(database[1][1].rows) = Len(Remote)
    /\ outFiles = {}

\* C10: the matched tiles are the catalog rows that the reprojected area
\* of interest touches, all of them and no other, in catalog order with
\* their attributes; the catalog and the caller's area are left as they were.
C10_PureFilter ==
    [][\A p \in callers :
        (/\ DownloadEnds(p)
         /\ EndsWith(args[p].download_path, <<".", "l", "a", "z">>)
         /\ database[p] # None) =>
            LET catalog == database[p][1]
                hits == Hits(catalog, args[p].gdf)
                tiles == ret'[p].tiles
            IN  /\ Len(tiles) = Cardinality(hits)
                /\ \E f \in [1..Len(tiles) -> hits] :
                      /\ \A i, j \in 1..Len(tiles) : i < j => f[i] < f[j]
                      /\ \A i \in 1..Len(tiles) : tiles[i] = catalog.rows[f[i]]
                /\ database'[p] = database[p]
                /\ database_path'[p] = database_path[p]
                /\ args'[p] = args[p]
                /\ files' = files]_vars

\* The first and the third row of a three-row catalog were matched.
C10_Witness ==
    /\ pc[1] = "idle"
    /\ ret[1].op = "download"
    /\ Len(database[1][1].rows) = 3
    /\ Len(ret[1].tiles) = 2
    /\ ret[1].tiles[1] = database[1][1].rows[1]
    /\ ret[1].tiles[2] = database[1][1].rows[3]

\* The exception classes that name no failure of this program.
GenericErrors == {"UnboundLocalError", "TypeError", "NameError", "AttributeError"}

Failed(p) == pc[p] = "idle" /\ ret[p].errType # "none"

\* C11: a failure that reaches the caller is not a generic error, and its
\* kind alone tells its cause: no download on the same object, whatever its
\* arguments, fails with the same kind for another cause.
C11_DistinctNamedFailures ==
    \A p \in callers :
        Failed(p) =>
            /\ ret[p].errType \notin GenericErrors
            /\ ret[p].op = "download" =>
                  \A gdf \in AreasOfInterest, download_path \in DownloadPaths,
                     executes \in BOOLEAN :
                      LET other == download_outcome(database[p], gdf,
                                                    download_path, executes)
                      IN  other.errType = ret[p].errType =>
                              other.errMsg = ret[p].errMsg

-----------------------------------------------------------------------------
(***************************************************************************)
(* The load step on its own: _read_database called with any path argument  *)
(* on any folder that builds (and a caller who cleans up) can leave.       *)
(***************************************************************************)
\* The pages the service can return.
Pages == {fetch_chunk(ntiles, idx, TRUE)[1] :
             idx \in {i \in start_indexes : fetch_chunk(ntiles, i, TRUE) # None}}

\* The catalogs a build can write: the pages that arrived, in any order.
Catalogs ==
    {BuildDb(chunks)[1] :
        chunks \in {<<a>> : a \in Pages}
                   \cup {<<a, b>> : <<a, b>> \in {ab \in Pages \X Pages : ab[1] # ab[2]}}}

\* The listings of a folder: its files, each once, in some order.
Listings(folder) ==
    LET present == {d \in DOMAIN folder : folder[d] # None}
    IN  {o \in UNION {[1..n -> present] : n \in {Cardinality(present)}} :
            \A i, j \in 1..Len(o) : i # j => o[i] # o[j]}

InitLoad ==
    /\ today = 1
    /\ files \in [Dates -> {None} \cup {Some(c) : c \in Catalogs}]
    /\ dirOrder \in Listings(files)
    /\ outFiles = {}
    /\ callers = {1}
    /\ pc = [p \in Procs |-> IF p = 1 THEN "read" ELSE "idle"]
    /\ overwrite = [p \in Procs |-> FALSE]
    /\ cpu_workers = [p \in Procs |-> 1]
    /\ is_database_present = [p \in Procs |-> FALSE]
    /\ futures = [p \in Procs |-> [idx \in start_indexes |-> NoFuture]]
    /\ data_chunks = [p \in Procs |-> <<>>]
    /\ db = [p \in Procs |-> None]
    /\ written = [p \in Procs |-> None]
    /\ path \in {[p \in Procs |-> IF p = 1 THEN given ELSE None] :
                    given \in {None} \cup {Some(d) : d \in Dates}}
    /\ database = [p \in Procs |-> None]
    /\ database_path = [p \in Procs |-> None]
    /\ args = [p \in Procs |-> NoArgs]
    /\ ret = [p \in Procs |-> NoRet]
    /\ last_resolve = [p \in Procs |-> <<"none", "none">>]

NextLoad == \E p \in Procs : ReadDatabase(p)

SpecLoad == InitLoad /\ [][NextLoad]_vars

\* No file matches what the load step was asked for.
NoMatchingFile(given) ==
    IF given = None THEN ~AnyFile ELSE files[given[1]] = None

\* C12: the load step fails with the not-found error whenever no matching
\* file exists, for an explicit path as for no path on an empty folder.
C12_LoadFailsNotFound ==
    \A p \in callers :
        (pc[p] = "idle" /\ ret[p].op = "init" /\ NoMatchingFile(path[p])) =>
            ret[p].errType = "FileNotFoundError"

\* C13: every read stage carries the same clip polygon, the union of the
\* area of interest as reprojected into the working frame, whatever frame
\* the area was given in.
C13_ClipIsReprojectedUnion ==
    \A p \in callers :
        (ret[p].op = "download" /\ ret[p].executed) =>
            \A i \in 1..Len(ret[p].tiles) :
                ret[p].pipeline[i].polygon = AreaInWorkingFrame(args[p].gdf)

\* C14: a page fetch ends with a non-empty page or with None and raises
\* nothing: the build goes on, and a fetch that has ended is not started
\* again in the same build.
C14_FetchAbsorbsFailure ==
    [][\A p \in callers : \A idx \in DOMAIN futures[p] :
        LET before == futures[p][idx]
            after == futures'[p][idx]
        IN  /\ (before.state = "running" /\ after.state = "done") =>
                  /\ after.result = None \/ Len(after.result[1].rows) > 0
                  /\ pc'[p] = "fetch"
                  /\ ret'[p] = ret[p]
            /\ before.state = "done" =>
                  \/ after = before
                  \/ after = NoFuture /\ pc[p] = "idle"
            /\ after.state = "running" => before.state \in {"queued", "running"}
            /\ after.state = "queued" => before.state \in {"new", "queued"}]_vars

\* The fetch of the first page failed and the build went on to write the
\* catalog of the other page.
C14_Witness ==
    /\ pc[1] = "getpath"
    /\ futures[1][0] = [state |-> "done", result |-> None]
    /\ \E idx \in DOMAIN futures[1] : futures[1][idx].result # None
    /\ ret[1].errType = "none"

\* C15: one fetch is dispatched for each offset (n-1)*ntiles, n in
\* 1..max_pages, and for no other; at most cpu_workers fetches run at a
\* time; the catalog is concatenated only when every fetch has ended.
C15_DispatchAndJoin ==
    \A p \in callers :
        /\ DOMAIN futures[p] = {(n - 1) * ntiles : n \in 1..max_pages}
        /\ pc[p] = "fetch" => \A idx \in DOMAIN futures[p] : futures[p][idx].state # "new"
        /\ Cardinality({idx \in DOMAIN futures[p] : futures[p][idx].state = "running"})
              <= cpu_workers[p]
        /\ (pc[p] = "save" \/ db[p] # None) =>
              \A idx \in DOMAIN futures[p] : futures[p][idx].state = "done"

\* The pool is full and a fetch is waiting for a free worker.
C15_Witness ==
    /\ pc[1] = "fetch"
    /\ cpu_workers[1] = 2
    /\ Cardinality(Running(1)) = 2
    /\ Queued(1) # {}

\* C17: when construction ends without error a catalog is loaded and its
\* recorded path names an existing file; it stays so whatever downloads
\* follow, and no download fails with "Database is not loaded".
C17_LoadedAfterConstruction ==
    \A p \in callers :
        /\ InitDone(p) => database_path[p] # None
        /\ database_path[p] # None =>
              /\ database[p] # None
              /\ Exists(database_path[p][1])
        /\ ret[p].op = "download" => database[p] # None
        /\ ret[p].errMsg # "Database is not loaded"

\* A download has run to its end on the catalog loaded at construction.
C17_Witness ==
    /\ pc[1] = "idle"
    /\ ret[1].op = "download"
    /\ ret[1].errType = "none"
    /\ ret[1].points
    /\ database[1] # None
    /\ Exists(database_path[1][1])

(***************************************************************************)
(* Two constructions on the same folder.  Each caller constructs once, on  *)
(* a machine with one worker; their steps interleave freely since the code *)
(* takes no lock between _check_database (line 89) and to_file (line 119). *)
(***************************************************************************)
InitRace == InitFor(Procs)

NextRace ==
    \/ Tick
    \/ \E p \in Procs :
        \/ \E ow \in BOOLEAN : ret[p].op = "none" /\ Construct(p, ow)
        \/ ReturnExisting(p)
        \/ Submit(p, 1)
        \/ StartFetch(p)
        \/ \E idx \in start_indexes, ok \in BOOLEAN : FinishFetch(p, idx, ok)
        \/ BuildCatalog(p)
        \/ ToFile(p)
        \/ ReturnPath(p)
        \/ ReadDatabase(p)

SpecRace == InitRace /\ [][NextRace]_vars

\* C16: the constructions on one folder are not coordinated.  A caller that
\* found no catalog, or overwrites, builds whatever the other caller is
\* doing; its write puts its own catalog in the file dated today, whatever
\* the other caller wrote there; and what a caller loads is a catalog built
\* by some caller, its own or the other's.
C16_UncoordinatedResolve ==
    [][\A p \in callers :
        /\ (pc[p] = "idle" /\ pc'[p] # "idle") =>
              (pc'[p] = "submit" <=> (~AnyFile \/ overwrite'[p]))
        /\ (pc[p] = "save" /\ pc'[p] = "getpath") =>
              /\ files'[today] = db[p]
              /\ written'[p] = Some(today)
        /\ (pc[p] = "read" /\ InitDone(p)') =>
              \E q \in callers :
                  /\ db[q] # None
                  /\ database'[p] = Some(ToCrs(db[q][1], WorkingCrs))]_vars

\* Both callers found no catalog, both built and wrote the same dated file,
\* and caller 1 has loaded the catalog caller 2 built, not its own.
C16_Witness ==
    /\ InitDone(1) /\ InitDone(2)
    /\ ~is_database_present[1] /\ ~is_database_present[2]
    /\ written[1] # None /\ written[1] = written[2]
    /\ db[1] # db[2]
    /\ database[1] = Some(ToCrs(db[2][1], WorkingCrs))
    /\ database[1] # Some(ToCrs(db[1][1], WorkingCrs))

(***************************************************************************)
(* url2bloc on its own: _download_database about to concatenate one page   *)
(* of one record, whose url is any short string or is missing, and which   *)
(* carries the column gml_id or not.                                       *)
(***************************************************************************)
Alphabet == {"/", ".", "t", "z"}

Urls == UNION {[1..n -> Alphabet] : n \in 0..MaxUrlLen}

BlocPages ==
    {[crs |-> WorkingCrs, rows |-> <<row>>] :
        row \in {[gml_id |-> "g1", url |-> u, geometry |-> {0}] :
                    u \in {None} \cup {Some(x) : x \in Urls}}
           \cup {[url |-> u, geometry |-> {0}] :
                    u \in {None} \cup {Some(x) : x \in Urls}}}

InitBloc ==
    /\ today = 1
    /\ files = [d \in Dates |-> None]
    /\ dirOrder = <<>>
    /\ outFiles = {}
    /\ callers = {1}
    /\ pc = [p \in Procs |-> IF p = 1 THEN "fetch" ELSE "idle"]
    /\ overwrite = [p \in Procs |-> FALSE]
    /\ cpu_workers = [p \in Procs |-> 1]
    /\ is_database_present = [p \in Procs |-> FALSE]
    /\ \E page \in BlocPages :
          /\ futures = [p \in Procs |->
                IF p = 1
                THEN [idx \in start_indexes |->
                        [state |-> "done",
                         result |-> IF idx = 0 THEN Some(page) ELSE None]]
                ELSE [idx \in start_indexes |-> NoFuture]]
          /\ data_chunks = [p \in Procs |-> IF p = 1 THEN <<page>> ELSE <<>>]
    /\ db = [p \in Procs |-> None]
    /\ written = [p \in Procs |-> None]
    /\ path = [p \in Procs |-> None]
    /\ database = [p \in Procs |-> None]
    /\ database_path = [p \in Procs |-> None]
    /\ args = [p \in Procs |-> NoArgs]
    /\ ret = [p \in Procs |-> NoRet]
    /\ last_resolve = [p \in Procs |-> <<"none", "none">>]

NextBloc == \E p \in Procs : BuildCatalog(p)

SpecBloc == InitBloc /\ [][NextBloc]_vars

\* The part of u after its last "/" and before the first "." that follows.
FinalSegmentStem(u) ==
    LET slashes == {i \in 1..Len(u) : u[i] = "/"}
        first == IF slashes = {} THEN 1
                 ELSE (CHOOSE i \in slashes : \A j \in slashes : j <= i) + 1
        dots == {i \in first..Len(u) : u[i] = "."}
        last == IF dots = {} THEN Len(u)
                ELSE (CHOOSE i \in dots : \A j \in dots : i <= j) - 1
    IN  SubSeq(u, first, last)

\* C18: in the catalog that is built, the bloc of a record with a url is the
\* url's final path segment cut at its first dot, the bloc of a record
\* without a url is None, no record has a gml_id column, and the other
\* columns are those of the pages.
C18_BlocFromUrl ==
    \A p \in callers :
        (pc[p] = "save" /\ db[p] # None) =>
            LET fetched == ConcatRows(data_chunks[p])
                rows == db[p][1].rows
            IN  /\ Len(rows) = Len(fetched)
                /\ \A i \in 1..Len(rows) :
                      /\ DOMAIN rows[i] = (DOMAIN fetched[i] \ {"gml_id"}) \cup {"bloc"}
                      /\ rows[i].url = fetched[i].url
                      /\ rows[i].geometry = fetched[i].geometry
                      /\ rows[i].bloc = IF fetched[i].url = None THEN None
                                        ELSE Some(FinalSegmentStem(fetched[i].url[1]))

\* The catalog built from a record that had a gml_id and a url with a
\* directory and two extensions: its bloc is the bare name.
C18_Witness ==
    /\ pc[1] = "save"
    /\ db[1] # None
    /\ "gml_id" \in DOMAIN data_chunks[1][1].rows[1]
    /\ db[1][1].rows[1].url = Some(<<"/", "t", ".", "z", ".", "z">>)
    /\ db[1][1].rows[1].bloc = Some(<<"t">>)

====
